---- MODULE Spec2Model ----
(***************************************************************************)
(* Model of the two screens of the GitHub viewer app:                      *)
(*   app/(tabs)/index.tsx     ProfileScreen  (fetchGitHubData)             *)
(*   app/(tabs)/projects.tsx  ProjectsScreen (fetchRepositories)           *)
(* Each screen is a React function component: its state lives from mount   *)
(* to unmount, its fetch is started by the mount effect and continues as   *)
(* an async function whose await points are the steps of the model.        *)
(***************************************************************************)
EXTENDS Integers, Sequences, FiniteSets, TLC

(* ---------------------------- bounds ----------------------------------- *)
\* longest repository list the repos endpoint returns
MaxRepos == 4
\* largest stargazers_count of a repository
MaxStars == 1
\* number of screen mounts (both screens together) in one behaviour
MaxMounts == 2

(* ------------------------- JavaScript values --------------------------- *)
\* null / absent value of a nullable state cell, and a present value
Null == <<>>
Some(x) == <<x>>

\* a JSON field value: t is the JavaScript type, s the string contents
Undefined == [t |-> "undefined", s |-> ""]
JsNull == [t |-> "null", s |-> ""]
Str(s) == [t |-> "string", s |-> s]

\* the clock at render time, in days since the epoch (2026-11-02)
Now == 20759
\* NaN time value of an Invalid Date
NaN == -1

\* Date.parse on a string: the time value in days since the epoch, or NaN
DateParse(s) ==
  CASE s = "2026-11-01T09:00:00Z" -> 20758
    [] s = "2025-11-02T09:00:00Z" -> 20394
    [] OTHER -> NaN

\* new Date(value): undefined gives an Invalid Date, null converts to 0
\* (the epoch), a string is parsed
NewDate(v) ==
  CASE v.t = "undefined" -> NaN
    [] v.t = "null" -> 0
    [] OTHER -> DateParse(v.s)

\* date-fns isValid(date)
isValid(date) == date # NaN

\* JavaScript truthiness of a field value: undefined, null and "" are falsy
Truthy(v) == v.t = "string" /\ v.s # ""

\* a piece of displayed text: a literal, a distance in words (kept as the
\* number of days it words) followed by a suffix, or a RangeError thrown
\* while rendering
Literal(s) == [kind |-> "literal", text |-> s, days |-> 0]
Distance(d, suffix) == [kind |-> "distance", text |-> suffix, days |-> d]
Thrown(s) == [kind |-> "throw", text |-> s, days |-> 0]

\* projects.tsx formatDate
formatDate(dateString) ==
  IF ~Truthy(dateString) THEN Literal("N/A")
  ELSE LET date == NewDate(dateString)
       IN IF isValid(date) THEN Distance(Now - date, " ago")
          ELSE Literal("N/A")

\* index.tsx: {formatDistanceToNow(new Date(field))} ago ; date-fns throws
\* RangeError on an Invalid Date
ProfileDateText(field) ==
  LET date == NewDate(field)
  IN IF isValid(date) THEN Distance(Now - date, " ago")
     ELSE Thrown("RangeError: Invalid time value")

(* --------------------------- repositories ------------------------------ *)
\* date fields the API can deliver: absent, null, empty, garbage, valid
DateFields ==
  << Str("2026-11-01T09:00:00Z"), Undefined, Str("not a date"),
     Str("2025-11-02T09:00:00Z"), JsNull, Str("") >>

FieldAt(i) == DateFields[((i - 1) % Len(DateFields)) + 1]

\* the i-th repository of a response, with the given star count
Repo(i, stars) ==
  [ id |-> i, stargazers_count |-> stars,
    created_at |-> FieldAt(i), updated_at |-> FieldAt(i + 2) ]

\* every repository list the repos endpoint can return
RepoLists ==
  UNION { { [i \in 1..n |-> Repo(i, f[i])] : f \in [1..n -> 0..MaxStars] }
          : n \in 0..MaxRepos }

\* the JSON body of the user endpoint
ProfileData == [avatar_url |-> "avatar", public_repos |-> 7, followers |-> 3]

(* ------------------------- array operations ---------------------------- *)
\* Array.prototype.reduce((acc, repo) => acc + repo.stargazers_count, 0)
RECURSIVE ReduceStars(_)
ReduceStars(arr) ==
  IF arr = <<>> THEN 0
  ELSE ReduceStars(SubSeq(arr, 1, Len(arr) - 1)) + arr[Len(arr)].stargazers_count

\* Array.prototype.sort(cmp): the stable sort by a comparator, which is given
\* as a function on pairs of elements of the array.  The element
\* at index i goes after every element that compares before it and after
\* every earlier element that compares equal to it.
ArraySort(arr, cmp) ==
  LET n == Len(arr)
      rank(i) == 1 + Cardinality({ j \in 1..n :
                       \/ cmp[arr[j], arr[i]] < 0
                       \/ cmp[arr[j], arr[i]] = 0 /\ j < i })
  IN [k \in 1..n |-> arr[CHOOSE i \in 1..n : rank(i) = k]]

\* the elements of an array
Elements(arr) == { arr[i] : i \in 1..Len(arr) }

\* Array.prototype.slice(0, end)
Slice(arr, end) == SubSeq(arr, 1, IF Len(arr) < end THEN Len(arr) ELSE end)

(* ------------------------------ state ---------------------------------- *)
VARIABLES
  githubRepos,       \* the repository list the repos endpoint serves
  mountsLeft,        \* screen mounts still to come in this behaviour
  profileMounted,    \* ProfileScreen is mounted
  profileMounts,     \* number of times ProfileScreen has been mounted
  profileScreen,     \* useState cells of the mounted ProfileScreen
  profileFetch,      \* fetchGitHubData invocations, one per mount
  profileRequests,   \* requests issued per mount and endpoint
  profileStale,      \* setters called on a ProfileScreen no longer mounted
  projectsMounted,   \* ProjectsScreen is mounted
  projectsMounts,    \* number of times ProjectsScreen has been mounted
  projectsScreen,    \* useState cells of the mounted ProjectsScreen
  projectsFetch,     \* fetchRepositories invocations, one per mount
  projectsRequests,  \* requests issued per mount
  projectsStale      \* setters called on a ProjectsScreen no longer mounted

profileVars ==
  << profileMounted, profileMounts, profileScreen, profileFetch,
     profileRequests, profileStale >>
projectsVars ==
  << projectsMounted, projectsMounts, projectsScreen, projectsFetch,
     projectsRequests, projectsStale >>
env == << githubRepos, mountsLeft >>
vars == << env, profileVars, projectsVars >>

Mounts == 1..MaxMounts

(* ========================== ProfileScreen ============================== *)
\* index.tsx useState initial values
ProfileInitialState ==
  [ profile |-> Null, topRepos |-> <<>>, totalStars |-> 0,
    loading |-> TRUE, error |-> Null ]

ProfileErrorMessage == "Failed to load profile data"

\* mutant: ascending comparator
ProfileCompareAscending(a, b) == a.stargazers_count - b.stargazers_count

\* the comparator of the profile screen's sort
ProfileCompare(a, b) == b.stargazers_count - a.stargazers_count

\* mutant: the stars are summed after the slice
TotalStarsOfTop(reposData) ==
  ReduceStars(Slice(ArraySort(reposData,
    [a \in Elements(reposData), b \in Elements(reposData) |-> ProfileCompare(a, b)]), 3))

\* const stars = reposData.reduce(...)
TotalStars(reposData) == ReduceStars(reposData)

\* reposData.sort(...).slice(0, 3)
TopRepos(reposData) ==
  Slice(ArraySort(reposData,
    [a \in Elements(reposData), b \in Elements(reposData) |-> ProfileCompare(a, b)]), 3)

\* Promise.all over the two fetch promises: rejected as soon as one is
\* rejected, fulfilled once both are fulfilled (a response with a
\* non-success status fulfils its promise)
PromiseAll(p, r) ==
  IF p = "rejected" \/ r = "rejected" THEN "rejected"
  ELSE IF p = "pending" \/ r = "pending" \/ p = "notIssued" \/ r = "notIssued"
       THEN "pending"
       ELSE "fulfilled"

\* mutant: only the profile response is checked
ResponsesFailedProfileOnly(p, r) == p # "ok"

\* !profileResponse.ok || !reposResponse.ok
ResponsesFailed(p, r) == p # "ok" \/ r # "ok"

\* mutant: the repositories request is issued only after the profile
\* request has been awaited
ProfileFetchSequential ==
  [ pc |-> "awaitAll", profileResponse |-> "pending",
    reposResponse |-> "notIssued", result |-> "pending" ]

\* the invocation started by the mount effect: both requests are issued
\* inside the Promise.all argument, before the await
ProfileFetchStarted ==
  [ pc |-> "awaitAll", profileResponse |-> "pending",
    reposResponse |-> "pending", result |-> "pending" ]

ProfileFetchNotStarted ==
  [ pc |-> "notStarted", profileResponse |-> "notIssued",
    reposResponse |-> "notIssued", result |-> "pending" ]

\* number of requests an invocation record has issued
Issued(resp) == IF resp = "notIssued" THEN 0 ELSE 1

\* the instance the invocation of mount g updates is the mounted one
ProfileLive(g) == profileMounted /\ profileMounts = g

\* mutant: the setters write to whichever instance is mounted
ProfileSetStateShared(g, next, setters) ==
  IF profileMounted
  THEN /\ profileScreen' = next
       /\ UNCHANGED profileStale
  ELSE /\ UNCHANGED profileScreen
       /\ profileStale' = [profileStale EXCEPT ![g] = @ \cup setters]

\* the state updates of an invocation: applied to its own instance when it
\* is still mounted, calls on a discarded instance otherwise
ProfileSetState(g, next, setters) ==
  IF ProfileLive(g)
  THEN /\ profileScreen' = next
       /\ UNCHANGED profileStale
  ELSE /\ UNCHANGED profileScreen
       /\ profileStale' = [profileStale EXCEPT ![g] = @ \cup setters]

\* mutant: a rejected request is reported with a message of its own
ProfileCatchByKind(g, f, kind) ==
  /\ profileFetch' = [profileFetch EXCEPT ![g] =
                        [f EXCEPT !.pc = "done", !.result = kind]]
  /\ ProfileSetState(g,
       [profileScreen EXCEPT
          !.error = Some(IF kind = "rejected" THEN "Network request failed"
                         ELSE ProfileErrorMessage),
          !.loading = FALSE],
       {"setError", "setLoading"})

\* catch (err) { setError(...) } finally { setLoading(false) }
ProfileCatch(g, f, kind) ==
  /\ profileFetch' = [profileFetch EXCEPT ![g] =
                        [f EXCEPT !.pc = "done", !.result = kind]]
  /\ ProfileSetState(g,
       [profileScreen EXCEPT !.error = Some(ProfileErrorMessage),
                             !.loading = FALSE],
       {"setError", "setLoading"})

\* mutant: the mount effect starts the fetch twice
ProfileMountTwice ==
  /\ ~profileMounted
  /\ mountsLeft > 0
  /\ mountsLeft' = mountsLeft - 1
  /\ profileMounted' = TRUE
  /\ profileMounts' = profileMounts + 1
  /\ profileScreen' = ProfileInitialState
  /\ profileFetch' = [profileFetch EXCEPT ![profileMounts + 1] = ProfileFetchStarted]
  /\ profileRequests' = [profileRequests EXCEPT ![profileMounts + 1] =
       [ user |-> @.user + 2 * Issued(ProfileFetchStarted.profileResponse),
         repos |-> @.repos + 2 * Issued(ProfileFetchStarted.reposResponse) ]]
  /\ UNCHANGED << githubRepos, profileStale, projectsVars >>

\* useEffect(() => { fetchGitHubData(); }, []) on mount
ProfileMount ==
  /\ ~profileMounted
  /\ mountsLeft > 0
  /\ mountsLeft' = mountsLeft - 1
  /\ profileMounted' = TRUE
  /\ profileMounts' = profileMounts + 1
  /\ profileScreen' = ProfileInitialState
  /\ profileFetch' = [profileFetch EXCEPT ![profileMounts + 1] = ProfileFetchStarted]
  /\ profileRequests' = [profileRequests EXCEPT ![profileMounts + 1] =
       [ user |-> @.user + Issued(ProfileFetchStarted.profileResponse),
         repos |-> @.repos + Issued(ProfileFetchStarted.reposResponse) ]]
  /\ UNCHANGED << githubRepos, profileStale, projectsVars >>

\* the screen is removed: its state cells are discarded, nothing is
\* cancelled
ProfileUnmount ==
  /\ profileMounted
  /\ profileMounted' = FALSE
  /\ profileScreen' = ProfileInitialState
  /\ UNCHANGED << env, profileMounts, profileFetch, profileRequests,
                  profileStale, projectsVars >>

\* one of the two fetch promises settles while Promise.all is awaited
ProfileResponse(g, which, outcome) ==
  LET f == profileFetch[g]
      p == IF which = "user" THEN outcome ELSE f.profileResponse
      r == IF which = "repos" THEN outcome ELSE f.reposResponse
      g1 == [f EXCEPT !.profileResponse = p, !.reposResponse = r]
  IN /\ f.pc = "awaitAll"
     /\ (IF which = "user" THEN f.profileResponse ELSE f.reposResponse) = "pending"
     /\ CASE PromiseAll(p, r) = "pending" ->
               /\ profileFetch' = [profileFetch EXCEPT ![g] = g1]
               /\ UNCHANGED << profileScreen, profileStale >>
          [] PromiseAll(p, r) = "rejected" ->
               ProfileCatch(g, g1, "rejected")
          [] OTHER ->
               IF ResponsesFailed(p, r)
               THEN ProfileCatch(g, g1, "httpError")
               ELSE /\ profileFetch' = [profileFetch EXCEPT ![g] =
                                          [g1 EXCEPT !.pc = "awaitProfileJson"]]
                    /\ UNCHANGED << profileScreen, profileStale >>
     /\ UNCHANGED << env, profileMounted, profileMounts,
                     profileRequests, projectsVars >>

\* a request still pending when Promise.all was rejected settles later
ProfileLateResponse(g, which, outcome) ==
  LET f == profileFetch[g]
  IN /\ f.pc = "done"
     /\ (IF which = "user" THEN f.profileResponse ELSE f.reposResponse) = "pending"
     /\ profileFetch' = [profileFetch EXCEPT ![g] =
          IF which = "user" THEN [f EXCEPT !.profileResponse = outcome]
          ELSE [f EXCEPT !.reposResponse = outcome]]
     /\ UNCHANGED << env, profileMounted, profileMounts, profileScreen,
                     profileRequests, profileStale, projectsVars >>

\* await profileResponse.json()
ProfileJson(g, parsed) ==
  LET f == profileFetch[g]
  IN /\ f.pc = "awaitProfileJson"
     /\ IF parsed
        THEN /\ profileFetch' = [profileFetch EXCEPT ![g].pc = "awaitReposJson"]
             /\ UNCHANGED << profileScreen, profileStale >>
        ELSE ProfileCatch(g, f, "profileDecodeError")
     /\ UNCHANGED << env, profileMounted, profileMounts,
                     profileRequests, projectsVars >>

\* mutant: the repository list is kept in a store both screens read, so
\* the profile's aggregate step also fills the projects screen
ProfileReposJsonSharedStore(g, parsed) ==
  LET f == profileFetch[g]
      reposData == githubRepos
  IN /\ f.pc = "awaitReposJson"
     /\ IF parsed
        THEN /\ profileFetch' = [profileFetch EXCEPT ![g] =
                                   [f EXCEPT !.pc = "done", !.result = "fulfilled"]]
             /\ ProfileSetState(g,
                  [profileScreen EXCEPT !.totalStars = TotalStars(reposData),
                                        !.profile = Some(ProfileData),
                                        !.topRepos = TopRepos(reposData),
                                        !.loading = FALSE],
                  {"setTotalStars", "setProfile", "setTopRepos", "setLoading"})
             /\ projectsScreen' =
                  IF projectsMounted
                  THEN [projectsScreen EXCEPT !.repositories = reposData,
                                              !.loading = FALSE]
                  ELSE projectsScreen
        ELSE /\ ProfileCatch(g, f, "reposDecodeError")
             /\ UNCHANGED projectsScreen
     /\ UNCHANGED << env, profileMounted, profileMounts, profileRequests,
                     projectsMounted, projectsMounts, projectsFetch,
                     projectsRequests, projectsStale >>

\* await reposResponse.json(), then the aggregate step: setTotalStars,
\* setProfile, setTopRepos, and setLoading(false) in the finally block
ProfileReposJson(g, parsed) ==
  LET f == profileFetch[g]
      reposData == githubRepos
  IN /\ f.pc = "awaitReposJson"
     /\ IF parsed
        THEN /\ profileFetch' = [profileFetch EXCEPT ![g] =
                                   [f EXCEPT !.pc = "done", !.result = "fulfilled"]]
             /\ ProfileSetState(g,
                  [profileScreen EXCEPT !.totalStars = TotalStars(reposData),
                                        !.profile = Some(ProfileData),
                                        !.topRepos = TopRepos(reposData),
                                        !.loading = FALSE],
                  {"setTotalStars", "setProfile", "setTopRepos", "setLoading"})
        ELSE ProfileCatch(g, f, "reposDecodeError")
     /\ UNCHANGED << env, profileMounted, profileMounts,
                     profileRequests, projectsVars >>

\* what ProfileScreen renders from its state
ProfileView ==
  LET none == [kind |-> "none", text |-> "", totalStars |-> 0, cards |-> <<>>]
      s == profileScreen
  IN IF ~profileMounted THEN none
     ELSE IF s.loading THEN [none EXCEPT !.kind = "loading", !.text = "Loading..."]
     ELSE IF s.error # Null THEN [none EXCEPT !.kind = "error", !.text = s.error[1]]
     ELSE [ kind |-> "data", text |-> "", totalStars |-> s.totalStars,
            cards |-> [i \in 1..Len(s.topRepos) |->
                        [ id |-> s.topRepos[i].id,
                          stars |-> s.topRepos[i].stargazers_count,
                          created |-> ProfileDateText(s.topRepos[i].created_at),
                          updated |-> ProfileDateText(s.topRepos[i].updated_at) ]] ]

(* ========================== ProjectsScreen ============================= *)
\* projects.tsx useState initial values
ProjectsInitialState ==
  [ repositories |-> <<>>, selectedRepo |-> Null, loading |-> TRUE,
    error |-> Null ]

ProjectsErrorMessage == "Failed to load repositories"

\* the comparator of the projects screen's sort
ProjectsCompare(a, b) == b.stargazers_count - a.stargazers_count

\* mutant: the projects list is cut like the profile's top list
SortedDataSliced(data) ==
  Slice(ArraySort(data,
    [a \in Elements(data), b \in Elements(data) |-> ProjectsCompare(a, b)]), 3)

\* data.sort(...)
SortedData(data) ==
  ArraySort(data,
    [a \in Elements(data), b \in Elements(data) |-> ProjectsCompare(a, b)])

\* the invocation started by the mount effect
ProjectsFetchStarted ==
  [ pc |-> "awaitFetch", response |-> "pending", result |-> "pending" ]

ProjectsFetchNotStarted ==
  [ pc |-> "notStarted", response |-> "notIssued", result |-> "pending" ]

ProjectsLive(g) == projectsMounted /\ projectsMounts = g

\* mutant: an invocation whose screen is gone is cancelled
ProjectsSetStateCancelled(g, next, setters) ==
  IF ProjectsLive(g)
  THEN /\ projectsScreen' = next
       /\ UNCHANGED projectsStale
  ELSE UNCHANGED << projectsScreen, projectsStale >>

\* the state updates of an invocation: applied to its own instance when it
\* is still mounted, calls on a discarded instance otherwise
ProjectsSetState(g, next, setters) ==
  IF ProjectsLive(g)
  THEN /\ projectsScreen' = next
       /\ UNCHANGED projectsStale
  ELSE /\ UNCHANGED projectsScreen
       /\ projectsStale' = [projectsStale EXCEPT ![g] = @ \cup setters]

\* mutant: the catch block without the finally block
ProjectsCatchNoFinally(g, f, kind) ==
  /\ projectsFetch' = [projectsFetch EXCEPT ![g] =
                         [f EXCEPT !.pc = "done", !.result = kind]]
  /\ ProjectsSetState(g,
       [projectsScreen EXCEPT !.error = Some(ProjectsErrorMessage)],
       {"setError"})

\* catch (err) { setError(...) } finally { setLoading(false) }
ProjectsCatch(g, f, kind) ==
  /\ projectsFetch' = [projectsFetch EXCEPT ![g] =
                         [f EXCEPT !.pc = "done", !.result = kind]]
  /\ ProjectsSetState(g,
       [projectsScreen EXCEPT !.error = Some(ProjectsErrorMessage),
                              !.loading = FALSE],
       {"setError", "setLoading"})

\* useEffect(() => { fetchRepositories(); }, []) on mount
ProjectsMount ==
  /\ ~projectsMounted
  /\ mountsLeft > 0
  /\ mountsLeft' = mountsLeft - 1
  /\ projectsMounted' = TRUE
  /\ projectsMounts' = projectsMounts + 1
  /\ projectsScreen' = ProjectsInitialState
  /\ projectsFetch' = [projectsFetch EXCEPT ![projectsMounts + 1] = ProjectsFetchStarted]
  /\ projectsRequests' = [projectsRequests EXCEPT ![projectsMounts + 1] =
                            @ + Issued(ProjectsFetchStarted.response)]
  /\ UNCHANGED << githubRepos, projectsStale, profileVars >>

\* the screen is removed: its state cells are discarded, nothing is
\* cancelled
ProjectsUnmount ==
  /\ projectsMounted
  /\ projectsMounted' = FALSE
  /\ projectsScreen' = ProjectsInitialState
  /\ UNCHANGED << env, projectsMounts, projectsFetch, projectsRequests,
                  projectsStale, profileVars >>

\* await fetch(...) settles; if (!response.ok) throw
ProjectsResponse(g, outcome) ==
  LET f == projectsFetch[g]
      g1 == [f EXCEPT !.response = outcome]
  IN /\ f.pc = "awaitFetch"
     /\ CASE outcome = "rejected" -> ProjectsCatch(g, g1, "rejected")
          [] outcome # "ok" -> ProjectsCatch(g, g1, "httpError")
          [] OTHER -> /\ projectsFetch' = [projectsFetch EXCEPT ![g] =
                                             [g1 EXCEPT !.pc = "awaitJson"]]
                      /\ UNCHANGED << projectsScreen, projectsStale >>
     /\ UNCHANGED << env, projectsMounted, projectsMounts,
                     projectsRequests, profileVars >>

\* await response.json(), then sort and setRepositories, and
\* setLoading(false) in the finally block
ProjectsJson(g, parsed) ==
  LET f == projectsFetch[g]
      data == githubRepos
  IN /\ f.pc = "awaitJson"
     /\ IF parsed
        THEN /\ projectsFetch' = [projectsFetch EXCEPT ![g] =
                                    [f EXCEPT !.pc = "done", !.result = "fulfilled"]]
             /\ ProjectsSetState(g,
                  [projectsScreen EXCEPT !.repositories = SortedData(data),
                                         !.loading = FALSE],
                  {"setRepositories", "setLoading"})
        ELSE ProjectsCatch(g, f, "decodeError")
     /\ UNCHANGED << env, projectsMounted, projectsMounts,
                     projectsRequests, profileVars >>

\* what ProjectsScreen renders from its state
ProjectsView ==
  LET none == [kind |-> "none", text |-> "", cards |-> <<>>,
               modalVisible |-> FALSE, modal |-> Null]
      s == projectsScreen
      dates(repo) == [ id |-> repo.id,
                       created |-> formatDate(repo.created_at),
                       updated |-> formatDate(repo.updated_at) ]
  IN IF ~projectsMounted THEN none
     ELSE IF s.loading
          THEN [none EXCEPT !.kind = "loading", !.text = "Loading repositories..."]
     ELSE IF s.error # Null THEN [none EXCEPT !.kind = "error", !.text = s.error[1]]
     ELSE [ kind |-> "data", text |-> "",
            cards |-> [i \in 1..Len(s.repositories) |-> dates(s.repositories[i])],
            modalVisible |-> s.selectedRepo # Null,
            modal |-> IF s.selectedRepo = Null THEN Null
                      ELSE Some(dates(s.selectedRepo[1])) ]

\* onPress={() => setSelectedRepo(item)} of a rendered card
SelectRepo(i) ==
  /\ ProjectsView.kind = "data"
  /\ i \in 1..Len(projectsScreen.repositories)
  /\ projectsScreen' = [projectsScreen EXCEPT
                          !.selectedRepo = Some(projectsScreen.repositories[i])]
  /\ UNCHANGED << env, projectsMounted, projectsMounts, projectsFetch,
                  projectsRequests, projectsStale, profileVars >>

\* mutant: closing the modal resets the whole screen state
CloseModalResets ==
  /\ ProjectsView.modalVisible
  /\ projectsScreen' = ProjectsInitialState
  /\ UNCHANGED << env, projectsMounted, projectsMounts, projectsFetch,
                  projectsRequests, projectsStale, profileVars >>

\* the close button and onRequestClose: setSelectedRepo(null)
CloseModal ==
  /\ ProjectsView.modalVisible
  /\ projectsScreen' = [projectsScreen EXCEPT !.selectedRepo = Null]
  /\ UNCHANGED << env, projectsMounted, projectsMounts, projectsFetch,
                  projectsRequests, projectsStale, profileVars >>

(* ========================== specification ============================== *)
\* representative responses for the lifecycle behaviours: no repository,
\* and a full unsorted page with ties
SampleLists ==
  { <<>>, [i \in 1..MaxRepos |-> Repo(i, i % (MaxStars + 1))] }

Screens ==
  /\ profileMounted = FALSE
  /\ profileMounts = 0
  /\ profileScreen = ProfileInitialState
  /\ profileFetch = [g \in Mounts |-> ProfileFetchNotStarted]
  /\ profileRequests = [g \in Mounts |-> [user |-> 0, repos |-> 0]]
  /\ profileStale = [g \in Mounts |-> {}]
  /\ projectsMounted = FALSE
  /\ projectsMounts = 0
  /\ projectsScreen = ProjectsInitialState
  /\ projectsFetch = [g \in Mounts |-> ProjectsFetchNotStarted]
  /\ projectsRequests = [g \in Mounts |-> 0]
  /\ projectsStale = [g \in Mounts |-> {}]

\* the app starts with no screen mounted; screens come and go MaxMounts times
Init ==
  /\ githubRepos \in SampleLists
  /\ mountsLeft = MaxMounts
  /\ Screens

\* every response the repos endpoint can give, one mount
DataInit ==
  /\ githubRepos \in RepoLists
  /\ mountsLeft = 1
  /\ Screens

Outcomes == {"ok", "notOk", "rejected"}

ProfileResponseStep ==
  \E g \in Mounts, which \in {"user", "repos"}, outcome \in Outcomes :
    ProfileResponse(g, which, outcome)
ProfileLateResponseStep ==
  \E g \in Mounts, which \in {"user", "repos"}, outcome \in Outcomes :
    ProfileLateResponse(g, which, outcome)
ProfileJsonStep == \E g \in Mounts, parsed \in BOOLEAN : ProfileJson(g, parsed)
ProfileReposJsonStep ==
  \E g \in Mounts, parsed \in BOOLEAN : ProfileReposJson(g, parsed)
ProjectsResponseStep ==
  \E g \in Mounts, outcome \in Outcomes : ProjectsResponse(g, outcome)
ProjectsJsonStep == \E g \in Mounts, parsed \in BOOLEAN : ProjectsJson(g, parsed)
SelectRepoStep == \E i \in 1..MaxRepos : SelectRepo(i)

Next ==
  \/ ProfileMount
  \/ ProfileUnmount
  \/ ProfileResponseStep
  \/ ProfileLateResponseStep
  \/ ProfileJsonStep
  \/ ProfileReposJsonStep
  \/ ProjectsMount
  \/ ProjectsUnmount
  \/ ProjectsResponseStep
  \/ ProjectsJsonStep
  \/ SelectRepoStep
  \/ CloseModal

Spec == Init /\ [][Next]_vars

DataSpec == DataInit /\ [][Next]_vars

\* every issued request settles, every body read settles, and the
\* continuation of an await runs once its promise has settled
Settling ==
  /\ WF_vars(ProfileResponseStep)
  /\ WF_vars(ProfileLateResponseStep)
  /\ WF_vars(ProfileJsonStep)
  /\ WF_vars(ProfileReposJsonStep)
  /\ WF_vars(ProjectsResponseStep)
  /\ WF_vars(ProjectsJsonStep)

FairSpec == Init /\ [][Next]_vars /\ Settling

TypeOK ==
  /\ githubRepos \in RepoLists
  /\ mountsLeft \in 0..MaxMounts
  /\ profileMounted \in BOOLEAN
  /\ profileMounts \in 0..MaxMounts
  /\ projectsMounted \in BOOLEAN
  /\ projectsMounts \in 0..MaxMounts

(* ============================= claims ================================== *)
Range(seq) == { seq[i] : i \in 1..Len(seq) }

NonIncreasing(seq) ==
  \A i \in 1..Len(seq), j \in 1..Len(seq) :
    i < j => seq[i].stargazers_count >= seq[j].stargazers_count

\* sum of stargazers_count over a list, from its first element on
RECURSIVE SumStars(_)
SumStars(seq) ==
  IF seq = <<>> THEN 0 ELSE Head(seq).stargazers_count + SumStars(Tail(seq))

Min(a, b) == IF a < b THEN a ELSE b

\* the invocation of the mounted screen, when it has ended
ProfileDone(g) == ProfileLive(g) /\ profileFetch[g].pc = "done"
ProjectsDone(g) == ProjectsLive(g) /\ projectsFetch[g].pc = "done"
ProfileSucceeded(g) == ProfileDone(g) /\ profileFetch[g].result = "fulfilled"
ProjectsSucceeded(g) == ProjectsDone(g) /\ projectsFetch[g].result = "fulfilled"

\* C1: when the fetch of the mounted profile screen has settled and either
\* response had a non-success status, the screen shows 'Failed to load
\* profile data' with profile null, topRepos empty and totalStars 0; on
\* the projects screen a non-success response gives 'Failed to load
\* repositories' with an empty repositories list.
C1_NonSuccessShowsError ==
  /\ \A g \in Mounts :
       ( /\ ProfileDone(g)
         /\ \/ profileFetch[g].profileResponse = "notOk"
            \/ profileFetch[g].reposResponse = "notOk" )
       => /\ ProfileView.kind = "error"
          /\ ProfileView.text = "Failed to load profile data"
          /\ profileScreen.error = Some("Failed to load profile data")
          /\ profileScreen.profile = Null
          /\ profileScreen.topRepos = <<>>
          /\ profileScreen.totalStars = 0
  /\ \A g \in Mounts :
       (ProjectsDone(g) /\ projectsFetch[g].response = "notOk")
       => /\ ProjectsView.kind = "error"
          /\ ProjectsView.text = "Failed to load repositories"
          /\ projectsScreen.error = Some("Failed to load repositories")
          /\ projectsScreen.repositories = <<>>

\* both screens have settled on a non-success status, the profile screen
\* on the one of its repositories request alone
C1_Witness ==
  /\ \E g \in Mounts : /\ ProfileDone(g)
                       /\ profileFetch[g].profileResponse = "ok"
                       /\ profileFetch[g].reposResponse = "notOk"
  /\ \E g \in Mounts : ProjectsDone(g) /\ projectsFetch[g].response = "notOk"
  /\ githubRepos # <<>>

\* C2: after a successful fetch of the profile screen totalStars is the sum
\* of stargazers_count over the whole returned list, and 0 for an empty
\* list.
C2_TotalStarsIsSum ==
  \A g \in Mounts :
    ProfileSucceeded(g)
    => /\ profileScreen.totalStars = SumStars(githubRepos)
       /\ githubRepos = <<>> => profileScreen.totalStars = 0

\* a successful fetch of more than three repositories whose stars outside
\* the top three count
C2_Witness ==
  \E g \in Mounts :
    /\ ProfileSucceeded(g)
    /\ Len(githubRepos) > 3
    /\ profileScreen.totalStars > SumStars(profileScreen.topRepos)

\* C3: after a successful fetch of the profile screen topRepos has length
\* min(3, n), is in non-increasing order of stargazers_count, consists of
\* distinct returned repositories, and no returned repository left out has
\* strictly more stars than one included.
C3_TopReposAreTopThree ==
  \A g \in Mounts :
    ProfileSucceeded(g)
    => LET top == profileScreen.topRepos
       IN /\ Len(top) = Min(3, Len(githubRepos))
          /\ NonIncreasing(top)
          /\ Range(top) \subseteq Range(githubRepos)
          /\ Cardinality(Range(top)) = Len(top)
          /\ \A out \in Range(githubRepos) \ Range(top), t \in Range(top) :
               out.stargazers_count <= t.stargazers_count

\* four repositories returned in an order that is not sorted, one of them
\* left out of the top three
C3_Witness ==
  \E g \in Mounts :
    /\ ProfileSucceeded(g)
    /\ Len(githubRepos) = 4
    /\ ~NonIncreasing(githubRepos)
    /\ Len(profileScreen.topRepos) = 3
    /\ profileScreen.topRepos[1].stargazers_count
         > profileScreen.topRepos[3].stargazers_count

\* C4: after a successful fetch of the projects screen repositories is in
\* non-increasing order of stargazers_count and is a permutation of the
\* returned list.
C4_RepositoriesSortedPermutation ==
  \A g \in Mounts :
    ProjectsSucceeded(g)
    => LET repos == projectsScreen.repositories
       IN /\ NonIncreasing(repos)
          /\ Len(repos) = Len(githubRepos)
          /\ \E perm \in [1..Len(repos) -> 1..Len(repos)] :
               /\ \A i, j \in 1..Len(repos) : perm[i] = perm[j] => i = j
               /\ \A i \in 1..Len(repos) : repos[i] = githubRepos[perm[i]]

\* a full page returned out of order
C4_Witness ==
  \E g \in Mounts :
    /\ ProjectsSucceeded(g)
    /\ Len(githubRepos) = MaxRepos
    /\ ~NonIncreasing(githubRepos)
    /\ projectsScreen.repositories # githubRepos

\* a date field that is missing (absent or null) or does not parse
MissingOrUnparseable(field) ==
  field.t \in {"undefined", "null"} \/ DateParse(field.s) = NaN

\* C5: every displayed date of a repository whose date field is missing or
\* unparseable is the literal "N/A", on the projects list cards, in the
\* detail modal and on the profile screen's top-repositories cards.
C5_BadDatesShowNA ==
  /\ \A i \in 1..Len(ProjectsView.cards) :
       LET repo == projectsScreen.repositories[i]
       IN /\ MissingOrUnparseable(repo.created_at)
               => ProjectsView.cards[i].created = Literal("N/A")
          /\ MissingOrUnparseable(repo.updated_at)
               => ProjectsView.cards[i].updated = Literal("N/A")
  /\ ProjectsView.modalVisible =>
       LET repo == projectsScreen.selectedRepo[1]
       IN /\ MissingOrUnparseable(repo.created_at)
               => ProjectsView.modal[1].created = Literal("N/A")
          /\ MissingOrUnparseable(repo.updated_at)
               => ProjectsView.modal[1].updated = Literal("N/A")
  /\ \A i \in 1..Len(ProfileView.cards) :
       LET repo == profileScreen.topRepos[i]
       IN /\ MissingOrUnparseable(repo.created_at)
               => ProfileView.cards[i].created = Literal("N/A")
          /\ MissingOrUnparseable(repo.updated_at)
               => ProfileView.cards[i].updated = Literal("N/A")

FailureKinds ==
  {"rejected", "httpError", "profileDecodeError", "reposDecodeError",
   "decodeError"}

\* C6: whatever the kind of failure and whichever request failed, a failed
\* fetch leaves the mounted screen in the same error state: the screen's
\* fixed message is set, nothing else is, and loading is off.
C6_OneErrorState ==
  /\ \A g \in Mounts :
       (ProfileDone(g) /\ profileFetch[g].result \in FailureKinds)
       => profileScreen =
            [ profile |-> Null, topRepos |-> <<>>, totalStars |-> 0,
              loading |-> FALSE,
              error |-> Some("Failed to load profile data") ]
  /\ \A g \in Mounts :
       (ProjectsDone(g) /\ projectsFetch[g].result \in FailureKinds)
       => projectsScreen =
            [ repositories |-> <<>>, selectedRepo |-> Null,
              loading |-> FALSE,
              error |-> Some("Failed to load repositories") ]
  /\ \A g \in Mounts : ProfileDone(g) => profileFetch[g].result # "pending"
  /\ \A g \in Mounts : ProjectsDone(g) => projectsFetch[g].result # "pending"

\* the profile screen failed on decoding the repositories body, the
\* projects screen on a rejected request
C6_Witness ==
  /\ \E g \in Mounts : /\ ProfileDone(g)
                       /\ profileFetch[g].result = "reposDecodeError"
  /\ \E g \in Mounts : ProjectsDone(g) /\ projectsFetch[g].result = "rejected"

\* both responses of an invocation have resolved
BothResolved(f) ==
  /\ f.profileResponse \in {"ok", "notOk"}
  /\ f.reposResponse \in {"ok", "notOk"}

\* the step sets the data of the profile screen
ProfileAggregates ==
  \/ profileScreen.profile = Null /\ profileScreen'.profile # Null
  \/ \E g \in Mounts : /\ profileFetch[g].result # "fulfilled"
                       /\ profileFetch'[g].result = "fulfilled"

\* C7: both requests of fetchGitHubData are issued before the await; the
\* aggregate step runs only in an invocation whose two requests have both
\* resolved; an invocation with a rejected request has ended on the error
\* path and has not run the aggregate step.
C7_JointAwait ==
  /\ [](\A g \in Mounts :
          /\ profileFetch[g].pc = "awaitAll"
               => /\ profileFetch[g].profileResponse # "notIssued"
                  /\ profileFetch[g].reposResponse # "notIssued"
                  /\ profileRequests[g] = [user |-> 1, repos |-> 1]
          /\ profileFetch[g].result = "fulfilled"
               => BothResolved(profileFetch[g])
          /\ ( \/ profileFetch[g].profileResponse = "rejected"
               \/ profileFetch[g].reposResponse = "rejected" )
               => /\ profileFetch[g].pc = "done"
                  /\ profileFetch[g].result = "rejected"
                  /\ ProfileLive(g)
                       => /\ profileScreen.profile = Null
                          /\ profileScreen.error # Null)
  /\ [][ProfileAggregates
          => \E g \in Mounts : /\ profileFetch[g].pc = "awaitReposJson"
                               /\ BothResolved(profileFetch[g])
                               /\ profileFetch'[g].result = "fulfilled"]_vars

\* one invocation ran the aggregate step, another ended on a rejection
\* while its other request was still pending
C7_Witness ==
  /\ \E g \in Mounts : ProfileSucceeded(g) /\ profileScreen.profile # Null
  /\ \E g \in Mounts : /\ profileFetch[g].result = "rejected"
                       /\ profileFetch[g].profileResponse = "pending"

\* an earlier invocation of the screen failed
ProfileFailedBefore(g) ==
  \E h \in Mounts : h < g /\ profileFetch[h].result \in FailureKinds
ProjectsFailedBefore(g) ==
  \E h \in Mounts : h < g /\ projectsFetch[h].result \in FailureKinds

\* C8: when the fetch of a screen succeeds after an earlier invocation of
\* it failed, the screen state is exactly the state of a first successful
\* fetch: the data of the new responses, error null, loading off, and the
\* data view is rendered.
C8_RefetchReplacesState ==
  /\ \A g \in Mounts :
       (ProfileSucceeded(g) /\ ProfileFailedBefore(g))
       => /\ profileScreen =
               [ profile |-> Some(ProfileData),
                 topRepos |-> TopRepos(githubRepos),
                 totalStars |-> SumStars(githubRepos),
                 loading |-> FALSE, error |-> Null ]
          /\ ProfileView.kind = "data"
  /\ \A g \in Mounts :
       (ProjectsSucceeded(g) /\ ProjectsFailedBefore(g))
       => /\ [projectsScreen EXCEPT !.selectedRepo = Null] =
               [ repositories |-> SortedData(githubRepos),
                 selectedRepo |-> Null, loading |-> FALSE, error |-> Null ]
          /\ ProjectsView.kind = "data"

\* the second invocation of the profile screen has succeeded after the
\* first one failed
C8_Witness ==
  /\ ProfileSucceeded(2)
  /\ profileFetch[1].result \in FailureKinds
  /\ githubRepos # <<>>

\* the invocation of mount g ends in this step
ProfileEnds(g) == profileFetch[g].pc # "done" /\ profileFetch'[g].pc = "done"
ProjectsEnds(g) == projectsFetch[g].pc # "done" /\ projectsFetch'[g].pc = "done"

\* C9: unmounting a screen leaves its pending invocation as it is, and an
\* invocation that ends after its screen was unmounted still calls
\* setLoading, and with it setError or the data setters, on the instance
\* that is gone.
C9_NoCancellation ==
  /\ [][(profileMounted /\ ~profileMounted') => profileFetch' = profileFetch]_vars
  /\ [][(projectsMounted /\ ~projectsMounted') => projectsFetch' = projectsFetch]_vars
  /\ [][\A g \in Mounts :
          (ProfileEnds(g) /\ ~ProfileLive(g))
          => /\ "setLoading" \in profileStale'[g]
             /\ \/ "setError" \in profileStale'[g]
                \/ {"setTotalStars", "setProfile", "setTopRepos"}
                     \subseteq profileStale'[g]]_vars
  /\ [][\A g \in Mounts :
          (ProjectsEnds(g) /\ ~ProjectsLive(g))
          => /\ "setLoading" \in projectsStale'[g]
             /\ \/ "setError" \in projectsStale'[g]
                \/ "setRepositories" \in projectsStale'[g]]_vars

\* setters have been called on a profile screen and on a projects screen
\* that were unmounted while their fetch was pending
C9_Witness ==
  /\ ~profileMounted /\ "setProfile" \in profileStale[1]
  /\ ~projectsMounted /\ "setError" \in projectsStale[1]

\* C10: in one mount the fetch is started once, so each endpoint is
\* requested at most once per mount, and once the error is set on a mounted
\* screen no request is issued and the screen state does not change while
\* it stays mounted.
C10_NoRetry ==
  /\ [](\A g \in Mounts :
          /\ profileRequests[g].user <= 1 /\ profileRequests[g].repos <= 1
          /\ projectsRequests[g] <= 1
          /\ ProfileLive(g) => profileRequests[g] = [user |-> 1, repos |-> 1]
          /\ ProjectsLive(g) => projectsRequests[g] = 1)
  /\ [][(profileMounted /\ profileMounted' /\ profileScreen.error # Null)
          => /\ profileScreen' = profileScreen
             /\ profileRequests' = profileRequests]_vars
  /\ [][(projectsMounted /\ projectsMounted' /\ projectsScreen.error # Null)
          => /\ projectsScreen' = projectsScreen
             /\ projectsRequests' = projectsRequests]_vars

\* both screens are mounted in the error state, one request per endpoint
C10_Witness ==
  /\ profileMounted /\ profileScreen.error # Null
  /\ projectsMounted /\ projectsScreen.error # Null
  /\ profileRequests[1] = [user |-> 1, repos |-> 1]
  /\ projectsRequests[1] = 1

\* a step of fetchGitHubData / of fetchRepositories: an invocation starts,
\* moves on or ends
ProfileFetchStep == profileFetch' # profileFetch
ProjectsFetchStep == projectsFetch' # projectsFetch

\* C11: every step of the profile screen's fetch leaves repositories,
\* selectedRepo, loading and error of the projects screen unchanged, and
\* every step of the projects screen's fetch leaves profile, topRepos,
\* totalStars, loading and error of the profile screen unchanged.
C11_ScreensOwnTheirState ==
  /\ [][ProfileFetchStep
          => /\ projectsScreen'.repositories = projectsScreen.repositories
             /\ projectsScreen'.selectedRepo = projectsScreen.selectedRepo
             /\ projectsScreen'.loading = projectsScreen.loading
             /\ projectsScreen'.error = projectsScreen.error]_vars
  /\ [][ProjectsFetchStep
          => /\ profileScreen'.profile = profileScreen.profile
             /\ profileScreen'.topRepos = profileScreen.topRepos
             /\ profileScreen'.totalStars = profileScreen.totalStars
             /\ profileScreen'.loading = profileScreen.loading
             /\ profileScreen'.error = profileScreen.error]_vars

\* both screens are mounted with their fetches interleaved: the profile
\* screen has its data while the projects screen is still loading, its
\* response decoding
C11_Witness ==
  /\ \E g \in Mounts : ProfileSucceeded(g)
  /\ \E g \in Mounts : ProjectsLive(g) /\ projectsFetch[g].pc = "awaitJson"
  /\ projectsScreen.loading
  /\ projectsScreen.repositories = <<>>
  /\ githubRepos # <<>>

\* C12: on a mounted screen loading is true exactly while its fetch has
\* not ended; with every request and body read settling, loading becomes
\* false on every path, and it does not become true again while the screen
\* stays mounted; the loading view is rendered while loading is true, and
\* with loading false the error view is rendered exactly when error is set,
\* the data view otherwise.
C12_LoadingUntilSettled ==
  /\ [](\A g \in Mounts :
          /\ ProfileLive(g) => (profileScreen.loading <=> profileFetch[g].pc # "done")
          /\ ProjectsLive(g) => (projectsScreen.loading <=> projectsFetch[g].pc # "done"))
  /\ [](profileMounted =>
          /\ profileScreen.loading => ProfileView.kind = "loading"
          /\ ~profileScreen.loading =>
               /\ ProfileView.kind = "error" <=> profileScreen.error # Null
               /\ ProfileView.kind = "data" <=> profileScreen.error = Null)
  /\ [](projectsMounted =>
          /\ projectsScreen.loading => ProjectsView.kind = "loading"
          /\ ~projectsScreen.loading =>
               /\ ProjectsView.kind = "error" <=> projectsScreen.error # Null
               /\ ProjectsView.kind = "data" <=> projectsScreen.error = Null)
  /\ [][(profileMounted /\ profileMounted' /\ ~profileScreen.loading)
          => ~profileScreen'.loading]_vars
  /\ [][(projectsMounted /\ projectsMounted' /\ ~projectsScreen.loading)
          => ~projectsScreen'.loading]_vars
  /\ (profileMounted /\ profileScreen.loading)
       ~> (~profileMounted \/ ~profileScreen.loading)
  /\ (projectsMounted /\ projectsScreen.loading)
       ~> (~projectsMounted \/ ~projectsScreen.loading)

\* both screens have left the loading view, one on the success path and
\* one on a decode failure
C12_Witness ==
  /\ \E g \in Mounts : ProfileSucceeded(g)
  /\ ~profileScreen.loading /\ ProfileView.kind = "data"
  /\ \E g \in Mounts : ProjectsDone(g) /\ projectsFetch[g].result = "decodeError"
  /\ ~projectsScreen.loading /\ ProjectsView.kind = "error"

\* the step changes selectedRepo of a projects screen that stays mounted
SelectedRepoChanges ==
  /\ projectsMounted /\ projectsMounted'
  /\ projectsScreen'.selectedRepo # projectsScreen.selectedRepo

\* C13: selectedRepo is null or an element of repositories; the detail
\* modal is visible exactly when selectedRepo is not null; a step that
\* makes selectedRepo non-null sets it to a repository of the list and is
\* taken with loading false and error null, a step that makes it null
\* comes from the visible modal, and both leave repositories, loading and
\* error unchanged.
C13_SelectedRepo ==
  /\ [](projectsScreen.selectedRepo # Null
          => projectsScreen.selectedRepo[1] \in Range(projectsScreen.repositories))
  /\ [](projectsMounted
          => (ProjectsView.modalVisible <=> projectsScreen.selectedRepo # Null))
  /\ [](~projectsMounted => ~ProjectsView.modalVisible)
  /\ [][SelectedRepoChanges
          => /\ projectsScreen'.repositories = projectsScreen.repositories
             /\ projectsScreen'.loading = projectsScreen.loading
             /\ projectsScreen'.error = projectsScreen.error
             /\ projectsFetch' = projectsFetch
             /\ IF projectsScreen'.selectedRepo # Null
                THEN /\ ~projectsScreen.loading
                     /\ projectsScreen.error = Null
                     /\ \E i \in 1..Len(projectsScreen.repositories) :
                          projectsScreen'.selectedRepo =
                            Some(projectsScreen.repositories[i])
                ELSE ProjectsView.modalVisible]_vars

\* the modal shows a repository that is not the first of a sorted list of
\* several
C13_Witness ==
  /\ ProjectsView.modalVisible
  /\ Len(projectsScreen.repositories) > 1
  /\ projectsScreen.selectedRepo # Null
  /\ projectsScreen.selectedRepo # Some(projectsScreen.repositories[1])
  /\ projectsScreen.repositories # githubRepos

====
